---- MODULE Spec2Model ----
(***************************************************************************)
(* A model of the unizen_aggr Solana program (solana-aggr/src): the fee    *)
(* split, the program wSOL escrow, the delegated Jupiter call and the      *)
(* amount-out check, and the instructions that compose them.               *)
(*                                                                         *)
(* Every u64 of the program is modelled at its full width.  TLC's own      *)
(* integers are 32 bits wide, so a u64 is a little-endian sequence of      *)
(* NumLimbs digits in base Base, and the arithmetic below works on those.  *)
(***************************************************************************)
EXTENDS Integers, Sequences, FiniteSets, TLC

(***************************************************************************)
(* u64 values                                                              *)
(***************************************************************************)

\* radix of one digit of a modelled u64
Base == 10 ^ 4

\* digits kept per value: Base^NumLimbs exceeds every product the program forms
NumLimbs == 7

\* width of the program's integers (u64)
U64_BITS == 64

RECURSIVE BigFrom(_, _)
BigFrom(n, i) ==
    IF i > NumLimbs THEN <<>> ELSE <<n % Base>> \o BigFrom(n \div Base, i + 1)

\* the value of a TLC natural as a digit sequence
Big(n) == BigFrom(n, 1)

RECURSIVE AddFrom(_, _, _, _)
AddFrom(a, b, i, carry) ==
    IF i > NumLimbs THEN <<>>
    ELSE LET s == a[i] + b[i] + carry
         IN  <<s % Base>> \o AddFrom(a, b, i + 1, s \div Base)

BigAdd(a, b) == AddFrom(a, b, 1, 0)

RECURSIVE SubFrom(_, _, _, _)
SubFrom(a, b, i, borrow) ==
    IF i > NumLimbs THEN <<>>
    ELSE LET s == a[i] - b[i] - borrow
         IN  <<(s + Base) % Base>> \o SubFrom(a, b, i + 1, IF s < 0 THEN 1 ELSE 0)

\* a - b for b <= a
BigSub(a, b) == SubFrom(a, b, 1, 0)

RECURSIVE LessFrom(_, _, _)
LessFrom(a, b, i) ==
    IF i = 0 THEN FALSE
    ELSE IF a[i] # b[i] THEN a[i] < b[i]
    ELSE LessFrom(a, b, i - 1)

BigLess(a, b) == LessFrom(a, b, NumLimbs)

BigLeq(a, b) == ~BigLess(b, a)

RECURSIVE MulFrom(_, _, _, _)
MulFrom(a, m, i, carry) ==
    IF i > NumLimbs THEN <<>>
    ELSE LET s == a[i] * m + carry
         IN  <<s % Base>> \o MulFrom(a, m, i + 1, s \div Base)

\* a * m for a TLC natural m below 2^17
BigMul(a, m) == MulFrom(a, m, 1, 0)

RECURSIVE DivFrom(_, _, _, _)
DivFrom(a, d, i, rem) ==
    IF i = 0 THEN <<>>
    ELSE LET s == rem * Base + a[i]
         IN  DivFrom(a, d, i - 1, s % d) \o <<s \div d>>

\* floor(a / d) for a TLC natural d, 0 < d < 2^17
BigDiv(a, d) == DivFrom(a, d, NumLimbs, 0)

RECURSIVE Pow2(_)
Pow2(k) ==
    IF k = 0 THEN Big(1)
    ELSE IF k >= 16 THEN BigMul(Pow2(k - 16), 2 ^ 16)
    ELSE BigMul(Pow2(k - 1), 2)

TwoTo64 == Pow2(U64_BITS)

U64_MAX == BigSub(TwoTo64, Big(1))

FitsU64(x) == BigLeq(x, U64_MAX)

RECURSIVE Reduce(_, _)
Reduce(x, k) ==
    IF k < 0 THEN x
    ELSE LET t == BigMul(TwoTo64, 2 ^ k)
         IN  Reduce(IF BigLeq(t, x) THEN BigSub(x, t) ELSE x, k - 1)

\* x mod 2^64 for x below 2^64 * 2^18
WrapU64(x) == Reduce(x, 17)

\* the outcomes of a * m on u64: a release build wraps, a build with
\* overflow-checks panics; the source does not fix the profile
u64_mul(a, m) ==
    LET p == BigMul(a, m)
    IN  IF FitsU64(p)
        THEN {[panic |-> FALSE, val |-> p]}
        ELSE {[panic |-> TRUE, val |-> Big(0)], [panic |-> FALSE, val |-> WrapU64(p)]}

\* the outcomes of a - b on u64, as for u64_mul
u64_sub(a, b) ==
    IF BigLeq(b, a)
    THEN {[panic |-> FALSE, val |-> BigSub(a, b)]}
    ELSE {[panic |-> TRUE, val |-> Big(0)],
          [panic |-> FALSE, val |-> BigSub(BigAdd(TwoTo64, a), b)]}

(***************************************************************************)
(* Constants of the program and of the ledger                              *)
(***************************************************************************)

FEE_DENOM == 10000

\* Rent::get()?.minimum_balance(TokenAccount::LEN)
rent_lamports == Big(2039280)

\* token accounts the instructions are given, and the mint of each
TokenAccts ==
    {"user_src_ata", "unizen_src_ata", "integrator_src_ata",
     "user_wsol_ata", "unizen_wsol_ata", "integrator_wsol_ata", "receiver_dst_ata"}

Mint(acct) ==
    CASE acct \in {"user_src_ata", "unizen_src_ata", "integrator_src_ata"} -> "src_token"
      [] acct \in {"user_wsol_ata", "unizen_wsol_ata", "integrator_wsol_ata"} -> "sol_mint"
      [] OTHER -> "dst_token"

\* token accounts whose owner is the signing user: the engine may debit these
UserOwned == {"user_src_ata", "user_wsol_ata", "receiver_dst_ata"}

\* system accounts holding lamports
SysAccts == {"user", "program_authority", "receiver"}

Absent == [lamports |-> Big(0), allocated |-> FALSE, owner |-> "none", amount |-> Big(0)]

(***************************************************************************)
(* Collaborators: the token program and the system program                 *)
(***************************************************************************)

\* spl-token Transfer, signed by the owner of `from`
TokenTransfer(w, from, to, amount) ==
    IF BigLess(w.tok[from], amount) THEN [res |-> "InsufficientFunds", w |-> w]
    ELSE IF Mint(from) # Mint(to) THEN [res |-> "MintMismatch", w |-> w]
    ELSE IF from = to \/ amount = Big(0) THEN [res |-> "Ok", w |-> w]
    ELSE [res |-> "Ok",
          w |-> [w EXCEPT !.tok[from] = BigSub(@, amount), !.tok[to] = BigAdd(@, amount)]]

\* system_program::transfer, signed by `from`
SystemTransfer(w, from, to, lamports) ==
    IF BigLess(w.lam[from], lamports) THEN [res |-> "InsufficientLamports", w |-> w]
    ELSE IF from = to THEN [res |-> "Ok", w |-> w]
    ELSE [res |-> "Ok",
          w |-> [w EXCEPT !.lam[from] = BigSub(@, lamports), !.lam[to] = BigAdd(@, lamports)]]

(***************************************************************************)
(* helpers.rs                                                              *)
(***************************************************************************)

\* transfer `amount` lamports from the user into the user's wSOL account, then
\* sync_native: the account's token amount follows its lamports
wrap_user_sol(w, amount) ==
    IF BigLess(w.lam["user"], amount) THEN [res |-> "InsufficientLamports", w |-> w]
    ELSE [res |-> "Ok",
          w |-> [w EXCEPT !.lam["user"] = BigSub(@, amount),
                          !.tok["user_wsol_ata"] = BigAdd(@, amount)]]

Xfer(to, amount, res) == [to |-> to, amount |-> amount, res |-> res]

FeeOutcome(res, w, xf) == [res |-> res, w |-> w, xfers |-> xf]

\* lines 118-129: the transfer of total_fee - unizen_fee to the integrator
PayIntegrator(w, a, total_fee, unizen_fee, xf) ==
    { IF d.panic THEN FeeOutcome("Panic", w, xf)
      ELSE LET t == TokenTransfer(w, a.user_token_account, a.integrator_token_account, d.val)
           IN  FeeOutcome(t.res, t.w, Append(xf, Xfer("integrator", d.val, t.res)))
      : d \in u64_sub(total_fee, unizen_fee) }

\* PayUnizen skipping the transfer when unizen_fee is 0
PayUnizenIfPositive(w, a, total_fee, share_percent) ==
    UNION { IF m.panic THEN {FeeOutcome("Panic", w, <<>>)}
            ELSE LET unizen_fee == BigDiv(m.val, FEE_DENOM)
                     t == TokenTransfer(w, a.user_token_account, a.unizen_token_account,
                                        unizen_fee)
                     xf == <<Xfer("unizen", unizen_fee, t.res)>>
                 IN  IF unizen_fee = Big(0) THEN PayIntegrator(w, a, total_fee, unizen_fee, <<>>)
                     ELSE IF t.res # "Ok" THEN {FeeOutcome(t.res, t.w, xf)}
                     ELSE PayIntegrator(t.w, a, total_fee, unizen_fee, xf)
            : m \in u64_mul(total_fee, share_percent) }

\* lines 102-116: the transfer of the protocol's share, when share_percent > 0
PayUnizen(w, a, total_fee, share_percent) ==
    UNION { IF m.panic THEN {FeeOutcome("Panic", w, <<>>)}
            ELSE LET unizen_fee == BigDiv(m.val, FEE_DENOM)
                     t == TokenTransfer(w, a.user_token_account, a.unizen_token_account,
                                        unizen_fee)
                     xf == <<Xfer("unizen", unizen_fee, t.res)>>
                 IN  IF t.res # "Ok" THEN {FeeOutcome(t.res, t.w, xf)}
                     ELSE PayIntegrator(t.w, a, total_fee, unizen_fee, xf)
            : m \in u64_mul(total_fee, share_percent) }

\* lines 99-129: total_fee and the two transfers
ChargeFee(w, a, in_amount, fee_percent, share_percent) ==
    UNION { IF m.panic THEN {FeeOutcome("Panic", w, <<>>)}
            ELSE LET total_fee == BigDiv(m.val, FEE_DENOM)
                 IN  IF share_percent > 0
                     THEN PayUnizen(w, a, total_fee, share_percent)
                     ELSE PayIntegrator(w, a, total_fee, Big(0), <<>>)
            : m \in u64_mul(in_amount, fee_percent) }

\* take_integrator_fee without the return on fee_percent == 0
take_integrator_fee_no_short_circuit(w, a, in_amount, fee_percent, share_percent) ==
    ChargeFee(w, a, in_amount, fee_percent, share_percent)

\* the set of outcomes of take_integrator_fee (the TakeFee event is emitted by
\* the step that calls this)
take_integrator_fee(w, a, in_amount, fee_percent, share_percent) ==
    IF fee_percent = 0 THEN {FeeOutcome("Ok", w, <<>>)}
    ELSE ChargeFee(w, a, in_amount, fee_percent, share_percent)

\* assert_amount_out comparing the amount out with `<=`
assert_amount_out_inclusive(prev_bal, post_bal, threshold) ==
    IF BigLess(post_bal, prev_bal) THEN "Underflow"
    ELSE IF BigLeq(BigSub(post_bal, prev_bal), threshold) THEN "InvalidSwapAmount"
    ELSE "Ok"

\* assert_amount_out with saturating_sub in place of checked_sub
assert_amount_out_saturating(prev_bal, post_bal, threshold) ==
    LET amount_out == IF BigLess(post_bal, prev_bal) THEN Big(0)
                      ELSE BigSub(post_bal, prev_bal)
    IN  IF BigLess(amount_out, threshold) THEN "InvalidSwapAmount" ELSE "Ok"

assert_amount_out(prev_bal, post_bal, threshold) ==
    IF BigLess(post_bal, prev_bal) THEN "Underflow"
    ELSE IF BigLess(BigSub(post_bal, prev_bal), threshold) THEN "InvalidSwapAmount"
    ELSE "Ok"

\* system create_account and initialize_account3 of the program's wSOL account
CreateProgramWsol(w) ==
    IF w.escrow.lamports # Big(0) THEN [res |-> "AccountAlreadyInUse", w |-> w]
    ELSE IF BigLess(w.lam["program_authority"], rent_lamports)
         THEN [res |-> "InsufficientLamports", w |-> w]
    ELSE [res |-> "Ok",
          w |-> [w EXCEPT !.lam["program_authority"] = BigSub(@, rent_lamports),
                          !.escrow = [lamports |-> rent_lamports, allocated |-> TRUE,
                                      owner |-> "program_authority",
                                      amount |-> Big(0)]]]

\* create_program_wsol_idempotent without the data_is_empty test
create_program_wsol_unconditional(w) == CreateProgramWsol(w)

\* create_program_wsol_idempotent without the comparison of the token owner
create_program_wsol_any_owner(w) ==
    IF ~w.escrow.allocated THEN CreateProgramWsol(w) ELSE [res |-> "Ok", w |-> w]

create_program_wsol_idempotent(w) ==
    IF ~w.escrow.allocated
    THEN CreateProgramWsol(w)
    ELSE IF w.escrow.owner # "program_authority" THEN [res |-> "IncorrectOwner", w |-> w]
    ELSE [res |-> "Ok", w |-> w]

\* token::close_account of the escrow into the program authority
CloseAccount(w) ==
    IF ~w.escrow.allocated THEN [res |-> "InvalidAccountData", w |-> w]
    ELSE IF w.escrow.owner # "program_authority" THEN [res |-> "OwnerMismatch", w |-> w]
    ELSE [res |-> "Ok",
          w |-> [w EXCEPT !.lam["program_authority"] = BigAdd(@, w.escrow.lamports),
                          !.escrow = Absent]]

\* close_program_wsol sending wsol_balance, not out_amount, to the receiver
close_program_wsol_whole_balance(w, receiver) ==
    LET c == CloseAccount(w)
    IN  {IF c.res # "Ok" THEN c
         ELSE SystemTransfer(c.w, "program_authority", receiver, w.escrow.lamports)}

\* the set of outcomes of close_program_wsol
close_program_wsol(w, receiver) ==
    { IF d.panic THEN [res |-> "Panic", w |-> w]
      ELSE LET c == CloseAccount(w)
           IN  IF c.res # "Ok" THEN c
               ELSE SystemTransfer(c.w, "program_authority", receiver, d.val)
      : d \in u64_sub(w.escrow.lamports, rent_lamports) }

(***************************************************************************)
(* The external engine                                                     *)
(***************************************************************************)

\* what the engine may add to an account it is given
EngineCredits == {Big(0), Big(50)}

\* what the engine may take from an account whose owner signed the transaction
EngineDebits == {Big(10)}

Credit(w, acct, by) == [w EXCEPT !.tok[acct] = BigAdd(@, by)]

Debit(w, acct, by) == [w EXCEPT !.tok[acct] = BigSub(@, by)]

\* a deposit of wrapped SOL into the program's wSOL account
Deposit(w, by) ==
    [w EXCEPT !.escrow.lamports = BigAdd(@, by), !.escrow.amount = BigAdd(@, by)]

\* the signer seeds swap_on_jupiter gives invoke_signed: `&[]`
jupiter_signer_seeds == {}

\* the accounts that sign the delegated call: the signer of the transaction,
\* whose flag is forwarded, and the addresses derived from the signer seeds
JupiterSigners ==
    {"user"} \cup {CASE seed = "authority" -> "program_authority"
                     [] OTHER -> "program_wsol" : seed \in jupiter_signer_seeds}

\* swap_on_jupiter: invoke_signed of the opaque instruction with no signer
\* seeds.  The engine fails, or moves value among the accounts it is given
\* as far as the signatures it holds allow: it credits the watched account
\* (through the program's wSOL account in swap_tokens_for_sol) and debits it
\* only when the user owns it.  The accounts are the caller's
\* remaining_accounts, so in every instruction the engine may be given the
\* program's wSOL account and credit it.
swap_on_jupiter(w, r) ==
    {[res |-> "EngineError", w |-> w]}
    \cup
    (IF r.op = "swap_tokens_for_sol"
     THEN {[res |-> "Ok", w |-> Deposit(w, by)]
             : by \in {b \in EngineCredits : w.escrow.allocated}}
          \cup {[res |-> "Ok", w |-> [w EXCEPT !.lam[r.receiver] = BigSub(@, by)]]
                  : by \in {b \in EngineDebits :
                               r.receiver = "user" /\ BigLeq(b, w.lam[r.receiver])}}
     ELSE {[res |-> "Ok", w |-> Credit(w, r.dst, by)] : by \in EngineCredits}
          \cup {[res |-> "Ok", w |-> Debit(w, r.dst, by)]
                  : by \in {b \in EngineDebits :
                               r.dst \in UserOwned /\ BigLeq(b, w.tok[r.dst])}}
          \cup {[res |-> "Ok", w |-> Deposit(w, by)]
                  : by \in {b \in EngineCredits : w.escrow.allocated /\ b # Big(0)}})
    \cup
    \* with the program authority's signature the engine could move its lamports
    {[res |-> "Ok", w |-> [w EXCEPT !.lam["program_authority"] = BigSub(@, by)]]
       : by \in {b \in EngineDebits : /\ "program_authority" \in JupiterSigners
                                      /\ BigLeq(b, w.lam["program_authority"])}}

(***************************************************************************)
(* The instructions                                                        *)
(***************************************************************************)

\* swap_sol_for_tokens with take_integrator_fee ahead of wrap_user_sol
swap_sol_for_tokens_fee_first ==
    <<"fee", "wrap", "snapshot", "delegate", "reload", "assert">>

\* the steps of each instruction handler, in the order of its statements
swap_sol_for_tokens == <<"wrap", "fee", "snapshot", "delegate", "reload", "assert">>

\* swap_tokens_for_sol with the amount-out check ahead of close_program_wsol
swap_tokens_for_sol_assert_first ==
    <<"fee", "create", "snapshot", "delegate", "assert", "close">>

swap_tokens_for_sol == <<"fee", "create", "snapshot", "delegate", "close", "assert">>

swap_tokens_for_tokens == <<"fee", "snapshot", "delegate", "reload", "assert">>

Flow(op) ==
    CASE op = "swap_sol_for_tokens" -> swap_sol_for_tokens
      [] op = "swap_tokens_for_sol" -> swap_tokens_for_sol
      [] op = "swap_tokens_for_tokens" -> swap_tokens_for_tokens
      [] op = "take_integrator_fee" -> <<"fee">>
      [] op = "create_program_wsol_idempotent" -> <<"create">>
      [] op = "close_program_wsol" -> <<"close">>

SwapOps == {"swap_sol_for_tokens", "swap_tokens_for_sol", "swap_tokens_for_tokens"}

\* the fee accounts of an instruction (AccountsForFee).  Only the user's and
\* the protocol's accounts are constrained: the integrator's may be its own
\* account, the protocol's, or an account of another mint.
FeeAccounts(family, integrator) ==
    LET user_ata == IF family = "wsol" THEN "user_wsol_ata" ELSE "user_src_ata"
        unizen_ata == IF family = "wsol" THEN "unizen_wsol_ata" ELSE "unizen_src_ata"
        own == IF family = "wsol" THEN "integrator_wsol_ata" ELSE "integrator_src_ata"
    IN  [user_token_account |-> user_ata,
         unizen_token_account |-> unizen_ata,
         integrator_token_account |->
            CASE integrator = "own" -> own
              [] integrator = "unizen" -> unizen_ata
              [] OTHER -> "receiver_dst_ata"]

\* receiver_dst_ata is any mutable token account: its own, or one that is
\* also the integrator's fee account or the user's source account
DstAccount(fee, dst) ==
    CASE dst = "own" -> "receiver_dst_ata"
      [] dst = "integrator" -> fee.integrator_token_account
      [] OTHER -> fee.user_token_account

NoFee == [user_token_account |-> "none", unizen_token_account |-> "none",
          integrator_token_account |-> "none"]

Request(op, amount_in, amount_out_min, fee_percent, share_percent, fee, dst, receiver) ==
    [op |-> op, amount_in |-> amount_in, amount_out_min |-> amount_out_min,
     fee_percent |-> fee_percent, share_percent |-> share_percent,
     fee |-> fee, dst |-> dst, receiver |-> receiver]

NoBig == <<>>

NoReq == [op |-> "none"]

VARIABLES
    ledger,          \* the committed accounts
    work,            \* the accounts as the running transaction sees them
    req,             \* the running instruction and its arguments
    pc,              \* 0: no instruction is running; else the index of its next step
    dst_amount,      \* ctx.accounts.receiver_dst_ata.amount, the deserialized copy
    prev_bal,        \* prev_bal / prev_sol_bal
    watched_before,  \* the watched balance when the delegated call started
    steps,           \* the steps the instruction has run, each with its result
    xfers,           \* the token transfers take_integrator_fee issued
    events,          \* the TakeFee events emitted
    result,          \* what the last finished instruction returned
    hist             \* the finished transactions

vars == <<ledger, work, req, pc, dst_amount, prev_bal, watched_before, steps, xfers,
          events, result, hist>>

InitLedger(e) ==
    [tok |-> [a \in TokenAccts |->
                 CASE a = "user_src_ata" -> Big(500000)
                   [] a = "receiver_dst_ata" -> Big(100)
                   [] OTHER -> Big(0)],
     lam |-> [a \in SysAccts |->
                 CASE a = "user" -> Big(5000000)
                   [] a = "program_authority" -> Big(3000000)
                   [] OTHER -> Big(1000)],
     escrow |-> e]

Open(by) == [lamports |-> BigAdd(rent_lamports, by), allocated |-> TRUE,
             owner |-> "program_authority", amount |-> by]

\* the program's wSOL account before the first modelled transaction: not yet
\* created (with or without lamports sent to its address), created, or
\* created and holding wrapped SOL sent to it
InitEscrows == {Absent, [Absent EXCEPT !.lamports = Big(7)], Open(Big(0)), Open(Big(50))}

InitWith(ledgers) ==
    /\ ledger \in ledgers
    /\ work = ledger
    /\ req = NoReq
    /\ pc = 0
    /\ dst_amount = NoBig
    /\ prev_bal = NoBig
    /\ watched_before = NoBig
    /\ steps = <<>>
    /\ xfers = <<>>
    /\ events = <<>>
    /\ result = "none"
    /\ hist = <<>>

Init == InitWith({InitLedger(e) : e \in InitEscrows})

CurStep == IF pc = 0 THEN "idle" ELSE Flow(req.op)[pc]

\* the balance the amount-out check of a swap is about
Watched(w, r) ==
    IF r.op = "swap_tokens_for_sol" THEN w.lam[r.receiver] ELSE w.tok[r.dst]

\* the accounts an instruction is given: `family` is the mint of the fee
\* accounts ("none" for the instructions without them)
AccountsFor(family, integrator) ==
    IF family = "none" THEN NoFee ELSE FeeAccounts(family, integrator)

\* the runtime loads the accounts and Anchor deserializes them (try_accounts)
Invoke(op, amount_in, amount_out_min, fee_percent, share_percent, family, integrator, dst, receiver, max) ==
    /\ pc = 0
    /\ req = NoReq
    /\ Len(hist) < max
    /\ req' = Request(op, amount_in, amount_out_min, fee_percent, share_percent,
                      AccountsFor(family, integrator),
                      IF dst = "none" THEN "none"
                      ELSE DstAccount(AccountsFor(family, integrator), dst),
                      receiver)
    /\ pc' = 1
    /\ dst_amount' = IF req'.dst = "none" THEN NoBig ELSE ledger.tok[req'.dst]
    /\ prev_bal' = NoBig
    /\ watched_before' = NoBig
    /\ steps' = <<>>
    /\ xfers' = <<>>
    /\ events' = <<>>
    /\ result' = "none"
    /\ UNCHANGED <<ledger, work, hist>>

SwapSolForTokens(in, max) ==
    \E amount_in \in in.amounts, amount_out_min \in in.mins, fee_percent \in in.fees,
       share_percent \in in.shares, integrator \in in.integrators, dst \in in.dsts :
        Invoke("swap_sol_for_tokens", amount_in, amount_out_min, fee_percent,
               share_percent, "wsol", integrator, dst, "none", max)

SwapTokensForSol(in, max) ==
    \E amount_in \in in.amounts, amount_out_min \in in.mins, fee_percent \in in.fees,
       share_percent \in in.shares, integrator \in in.integrators,
       receiver \in in.receivers :
        Invoke("swap_tokens_for_sol", amount_in, amount_out_min, fee_percent,
               share_percent, "src", integrator, "none", receiver, max)

SwapTokensForTokens(in, max) ==
    \E amount_in \in in.amounts, amount_out_min \in in.mins, fee_percent \in in.fees,
       share_percent \in in.shares, integrator \in in.integrators, dst \in in.dsts :
        Invoke("swap_tokens_for_tokens", amount_in, amount_out_min, fee_percent,
               share_percent, "src", integrator, dst, "none", max)

TakeIntegratorFee(in, max) ==
    \E amount_in \in in.amounts, fee_percent \in in.fees, share_percent \in in.shares,
       integrator \in in.integrators :
        Invoke("take_integrator_fee", amount_in, Big(0), fee_percent, share_percent,
               "src", integrator, "none", "none", max)

CreateWsolTokenIdempotent(max) ==
    Invoke("create_program_wsol_idempotent", Big(0), Big(0), 0, 0, "none", "none",
           "none", "none", max)

CloseProgramWsol(in, max) ==
    \E receiver \in in.receivers :
        Invoke("close_program_wsol", Big(0), Big(0), 0, 0, "none", "none", "none",
               receiver, max)

\* a call whose result is dropped (`let _ = ...`) in place of `?`
PropagatesNever(res) == FALSE

\* the `?` after a call: an error ends the handler
Propagates(res) == res # "Ok"

\* the handler returns `res`: the runtime commits the transaction's writes when
\* it is Ok and discards them otherwise
Return(res, w) ==
    /\ pc' = 0
    /\ ledger' = IF res = "Ok" THEN w ELSE ledger
    /\ work' = ledger'
    /\ result' = res
    /\ hist' = Append(hist, [op |-> req.op, res |-> res, receiver |-> req.receiver,
                             was |-> [escrow |-> ledger.escrow, lam |-> ledger.lam],
                             escrow |-> ledger'.escrow, lam |-> ledger'.lam])

\* one statement of the handler has run with result `res`, leaving accounts `w`
Advance(name, res, w) ==
    /\ steps' = Append(steps, [step |-> name, res |-> res])
    /\ IF pc = Len(Flow(req.op)) \/ Propagates(res)
       THEN Return(res, w)
       ELSE /\ pc' = pc + 1
            /\ work' = w
            /\ UNCHANGED <<ledger, result, hist>>

StepWrap ==
    /\ CurStep = "wrap"
    /\ LET o == wrap_user_sol(work, req.amount_in) IN Advance("wrap", o.res, o.w)
    /\ UNCHANGED <<req, dst_amount, prev_bal, watched_before, xfers, events>>

StepFee ==
    /\ CurStep = "fee"
    /\ \E o \in take_integrator_fee(work, req.fee, req.amount_in, req.fee_percent,
                                    req.share_percent) :
          /\ xfers' = o.xfers
          /\ Advance("fee", o.res, o.w)
    /\ events' = Append(events, [amount |-> req.amount_in, fee_percent |-> req.fee_percent,
                                 share_percent |-> req.share_percent])
    /\ UNCHANGED <<req, dst_amount, prev_bal, watched_before>>

StepCreate ==
    /\ CurStep = "create"
    /\ LET o == create_program_wsol_idempotent(work) IN Advance("create", o.res, o.w)
    /\ UNCHANGED <<req, dst_amount, prev_bal, watched_before, xfers, events>>

\* let prev_bal = ctx.accounts.receiver_dst_ata.amount, the deserialized copy;
\* let prev_sol_bal = ctx.accounts.receiver.to_account_info().get_lamports()
StepSnapshot ==
    /\ CurStep = "snapshot"
    /\ prev_bal' = IF req.op = "swap_tokens_for_sol" THEN work.lam[req.receiver]
                   ELSE dst_amount
    /\ Advance("snapshot", "Ok", work)
    /\ UNCHANGED <<req, dst_amount, watched_before, xfers, events>>

StepDelegate ==
    /\ CurStep = "delegate"
    /\ watched_before' = Watched(work, req)
    /\ \E o \in swap_on_jupiter(work, req) : Advance("delegate", o.res, o.w)
    /\ UNCHANGED <<req, dst_amount, prev_bal, xfers, events>>

\* ctx.accounts.receiver_dst_ata.reload()
StepReload ==
    /\ CurStep = "reload"
    /\ dst_amount' = work.tok[req.dst]
    /\ Advance("reload", "Ok", work)
    /\ UNCHANGED <<req, prev_bal, watched_before, xfers, events>>

StepClose ==
    /\ CurStep = "close"
    /\ \E o \in close_program_wsol(work, req.receiver) : Advance("close", o.res, o.w)
    /\ UNCHANGED <<req, dst_amount, prev_bal, watched_before, xfers, events>>

StepAssert ==
    /\ CurStep = "assert"
    /\ LET post_bal == IF req.op = "swap_tokens_for_sol" THEN work.lam[req.receiver]
                       ELSE dst_amount
       IN  Advance("assert", assert_amount_out(prev_bal, post_bal, req.amount_out_min),
                   work)
    /\ UNCHANGED <<req, dst_amount, prev_bal, watched_before, xfers, events>>

\* the handler's context goes out of scope
DropContext ==
    /\ pc = 0
    /\ req # NoReq
    /\ req' = NoReq
    /\ dst_amount' = NoBig
    /\ prev_bal' = NoBig
    /\ watched_before' = NoBig
    /\ steps' = <<>>
    /\ xfers' = <<>>
    /\ events' = <<>>
    /\ result' = "none"
    /\ UNCHANGED <<ledger, work, pc, hist>>

(***************************************************************************)
(* Spec: one instruction, of any of the six, with the swaps' arguments     *)
(***************************************************************************)

\* transactions per behaviour of Spec
MaxTx == 1

\* smallest amount_in whose product with a fee_percent of 100 leaves u64
HugeAmount == BigAdd(BigDiv(U64_MAX, 100), Big(1))

SwapInputs ==
    [amounts |-> {Big(1000000), HugeAmount},
     mins |-> {Big(0), Big(50), Big(60)},
     fees |-> {0, 100, FEE_DENOM},
     shares |-> {0, 2000},
     integrators |-> {"own"},
     dsts |-> {"own", "integrator", "source"},
     receivers |-> {"receiver", "user"}]

\* the receiver of close_program_wsol is any system account, the program
\* authority included
SeqInputs == [receivers |-> {"receiver", "user", "program_authority"}]

Next ==
    \/ SwapSolForTokens(SwapInputs, MaxTx)
    \/ SwapTokensForSol(SwapInputs, MaxTx)
    \/ SwapTokensForTokens(SwapInputs, MaxTx)
    \/ TakeIntegratorFee(SwapInputs, MaxTx)
    \/ CreateWsolTokenIdempotent(MaxTx)
    \/ CloseProgramWsol(SeqInputs, MaxTx)
    \/ StepWrap
    \/ StepFee
    \/ StepCreate
    \/ StepSnapshot
    \/ StepDelegate
    \/ StepReload
    \/ StepClose
    \/ StepAssert
    \/ DropContext

Spec == Init /\ [][Next]_vars

(***************************************************************************)
(* SpecFee: the fee-only instruction over a wide range of arguments        *)
(***************************************************************************)

\* transactions per behaviour of SpecFee
MaxFeeTx == 1

FeeInputs ==
    [amounts |-> {Big(0), Big(1), Big(12345), Big(1000000), BigDiv(U64_MAX, FEE_DENOM),
                  BigAdd(BigDiv(U64_MAX, FEE_DENOM), Big(1)), U64_MAX},
     fees |-> {0, 1, 100, FEE_DENOM - 1, FEE_DENOM, 2 * FEE_DENOM},
     shares |-> {0, 1, 2000, FEE_DENOM - 1, FEE_DENOM, 2 * FEE_DENOM},
     integrators |-> {"own", "unizen", "foreign"}]

\* the user's source account holds little, or the whole supply
InitFee ==
    InitWith({[InitLedger(Absent) EXCEPT !.tok["user_src_ata"] = b] :
                 b \in {Big(500000), U64_MAX}})

NextFee ==
    \/ TakeIntegratorFee(FeeInputs, MaxFeeTx)
    \/ StepFee
    \/ DropContext

SpecFee == InitFee /\ [][NextFee]_vars

(***************************************************************************)
(* SpecSeq: sequences of the two instructions on the program's wSOL        *)
(* account                                                                 *)
(***************************************************************************)

\* transactions per behaviour of SpecSeq
MaxSeqTx == 3

NextSeq ==
    \/ CreateWsolTokenIdempotent(MaxSeqTx)
    \/ CloseProgramWsol(SeqInputs, MaxSeqTx)
    \/ StepCreate
    \/ StepClose
    \/ DropContext

SpecSeq == Init /\ [][NextSeq]_vars

(***************************************************************************)
(* SpecFlows: sequences of the swaps and the two wSOL-account instructions *)
(* from a ledger where the program's wSOL account was never created        *)
(***************************************************************************)

\* transactions per behaviour of SpecFlows
MaxFlowTx == 3

FlowInputs ==
    [amounts |-> {Big(1000000)},
     mins |-> {Big(0), Big(50)},
     fees |-> {0},
     shares |-> {0},
     integrators |-> {"own"},
     dsts |-> {"own"},
     receivers |-> {"receiver"}]

InitFlows == InitWith({InitLedger(Absent)})

NextFlows ==
    \/ CreateWsolTokenIdempotent(MaxFlowTx)
    \/ CloseProgramWsol(FlowInputs, MaxFlowTx)
    \/ SwapTokensForTokens(FlowInputs, MaxFlowTx)
    \/ SwapTokensForSol(FlowInputs, MaxFlowTx)
    \/ StepFee
    \/ StepCreate
    \/ StepSnapshot
    \/ StepDelegate
    \/ StepReload
    \/ StepClose
    \/ StepAssert
    \/ DropContext

SpecFlows == InitFlows /\ [][NextFlows]_vars

(***************************************************************************)
(* Properties                                                              *)
(***************************************************************************)

\* the step that has just run, in an action
StepRan == steps' # steps /\ steps' # <<>>

LastRes == steps'[Len(steps')].res

\* floor(amount * percent / FEE_DENOM) over the naturals
ExactPart(amount, percent) == BigDiv(BigMul(amount, percent), FEE_DENOM)

\* the amount of the transfer take_integrator_fee made to `to`, 0 when none
Moved(xf, to) ==
    LET made == {i \in 1..Len(xf) : xf[i].to = to /\ xf[i].res = "Ok"}
    IN  IF made = {} THEN Big(0) ELSE xf[CHOOSE i \in made : TRUE].amount

InRange(percent) == percent \in 0..FEE_DENOM

\* C1: a swap that returns success has raised the watched balance (the
\* destination token account's amount, or the receiver's lamports in
\* swap_tokens_for_sol) over its value when the delegated call started by at
\* least amount_out_min, whatever the engine did.
C1_FloorGuarantee ==
    (pc = 0 /\ req.op \in SwapOps /\ result = "Ok")
        => BigLeq(BigAdd(watched_before, req.amount_out_min), Watched(ledger, req))

\* C2: when a step of a swap fails, the swap returns that failure and the
\* committed accounts are those from before the request: no fee moved, nothing
\* wrapped, the program's wSOL account as it was.
C2_AtomicRollback ==
    [][(req.op \in SwapOps /\ StepRan /\ LastRes # "Ok")
          => (pc' = 0 /\ result' = LastRes /\ ledger' = ledger /\ work' = ledger)]_vars

\* C2 witness: the amount-out check failed after a fee transfer had succeeded
C2_Witness ==
    /\ pc = 0
    /\ req.op = "swap_sol_for_tokens"
    /\ result = "InvalidSwapAmount"
    /\ Len(xfers) = 2
    /\ xfers[1].res = "Ok" /\ xfers[1].amount = Big(2000)
    /\ xfers[2].res = "Ok" /\ xfers[2].amount = Big(8000)

\* C3: for fee_percent and share_percent in [0, FEE_DENOM] and every
\* amount_in, the amounts moved are protocol_fee = floor(total_fee *
\* share_percent / FEE_DENOM) and integrator_fee with protocol_fee +
\* integrator_fee = floor(amount_in * fee_percent / FEE_DENOM) <= amount_in.
C3_FeeSplit ==
    (/\ pc = 0
     /\ req.op = "take_integrator_fee"
     /\ result = "Ok"
     /\ InRange(req.fee_percent)
     /\ InRange(req.share_percent))
        => LET total_fee == ExactPart(req.amount_in, req.fee_percent)
               protocol_fee == ExactPart(total_fee, req.share_percent)
           IN  /\ Moved(xfers, "unizen") = protocol_fee
               /\ BigAdd(Moved(xfers, "unizen"), Moved(xfers, "integrator")) = total_fee
               /\ BigLeq(protocol_fee, total_fee)
               /\ BigLeq(total_fee, req.amount_in)

\* C4: with fee_percent = 0 take_integrator_fee returns Ok whatever amount_in
\* and share_percent are, issues no transfer and changes no balance; the
\* TakeFee event is emitted all the same.
C4_ZeroFeeNoTransfer ==
    [][(CurStep = "fee" /\ req.fee_percent = 0 /\ StepRan)
          => /\ LastRes = "Ok"
             /\ xfers' = <<>>
             /\ work' = work
             /\ ledger' = ledger
             /\ events' = Append(events, [amount |-> req.amount_in, fee_percent |-> 0,
                                          share_percent |-> req.share_percent])]_vars

\* C4 witness: the whole u64 range as amount_in, a share, and no fee
C4_Witness ==
    /\ pc = 0
    /\ req.op = "take_integrator_fee"
    /\ req.fee_percent = 0
    /\ req.share_percent = FEE_DENOM
    /\ req.amount_in = U64_MAX
    /\ result = "Ok"
    /\ Len(events) = 1

\* C5: in every swap, once the fee step has succeeded with fee_percent > 0,
\* when the delegated call starts the source account is down by exactly
\* floor(amount_in * fee_percent / FEE_DENOM) from when the fee step began,
\* the protocol's account up by protocol_fee and the integrator's by
\* integrator_fee.
C5_FeeBeforeDelegate ==
    [][/\ (CurStep = "fee" /\ req.op \in SwapOps /\ req.fee_percent > 0
              /\ StepRan /\ LastRes = "Ok")
          => LET total_fee == ExactPart(req.amount_in, req.fee_percent)
                 protocol_fee == ExactPart(total_fee, req.share_percent)
                 a == req.fee
             IN  /\ BigAdd(work'.tok[a.user_token_account], total_fee)
                       = work.tok[a.user_token_account]
                 /\ work'.tok[a.unizen_token_account]
                       = BigAdd(work.tok[a.unizen_token_account], protocol_fee)
                 /\ BigAdd(work'.tok[a.integrator_token_account], protocol_fee)
                       = BigAdd(work.tok[a.integrator_token_account], total_fee)
       /\ (CurStep \in {"create", "snapshot"} /\ req.op \in SwapOps /\ StepRan)
          => work'.tok = work.tok]_vars

\* the balances assert_amount_out is given by the handler
PostBal == IF req.op = "swap_tokens_for_sol" THEN work.lam[req.receiver] ELSE dst_amount

\* C6: assert_amount_out returns Ok exactly when post_bal >= prev_bal and
\* post_bal - prev_bal >= threshold, InvalidSwapAmount exactly when post_bal
\* >= prev_bal and post_bal - prev_bal < threshold, whatever the size of the
\* difference, and changes no account.
C6_VerifyFloor ==
    [][(CurStep = "assert" /\ StepRan)
          => LET grew == BigLeq(prev_bal, PostBal)
                 enough == BigLeq(BigAdd(prev_bal, req.amount_out_min), PostBal)
             IN  /\ (LastRes = "Ok") <=> (grew /\ enough)
                 /\ (LastRes = "InvalidSwapAmount") <=> (grew /\ ~enough)
                 /\ (LastRes = "Ok") => ledger' = work]_vars

\* C6 witness: prev_bal = 100, post_bal = 150, threshold = 60
C6_Witness ==
    /\ pc = 0
    /\ result = "InvalidSwapAmount"
    /\ prev_bal = Big(100)
    /\ dst_amount = Big(150)
    /\ req.amount_out_min = Big(60)

\* C7: whatever the threshold, 0 included, assert_amount_out returns Underflow
\* when post_bal < prev_bal: never Ok, never InvalidSwapAmount.
C7_Underflow ==
    [][(CurStep = "assert" /\ StepRan /\ BigLess(PostBal, prev_bal))
          => (LastRes = "Underflow" /\ result' = "Underflow")]_vars

\* C7 witness: prev_bal = 100, post_bal = 90, threshold = 0
C7_Witness ==
    /\ pc = 0
    /\ result = "Underflow"
    /\ prev_bal = Big(100)
    /\ dst_amount = Big(90)
    /\ req.amount_out_min = Big(0)

\* C8: the prev_bal given to assert_amount_out is the watched account's
\* balance when the delegated call starts, after the wrap and the fee of the
\* same instruction, whichever accounts the instruction is given.
C8_SnapshotIsCurrent ==
    (req.op \in SwapOps /\ CurStep = "delegate") => prev_bal = Watched(work, req)

\* the statements of swap_tokens_for_sol, in the order of the source
TokenToNativeOrder == <<"fee", "create", "snapshot", "delegate", "close", "assert">>

\* C9: swap_tokens_for_sol runs take fee, create the wSOL account, snapshot,
\* delegate, close, check, in this order, each once and each only after the
\* one before returned Ok; the wSOL account is open when the delegated call
\* runs and closed when the amount-out check runs.
C9_TokenToNativeOrder ==
    req.op = "swap_tokens_for_sol"
        => /\ Len(steps) <= Len(TokenToNativeOrder)
           /\ \A i \in 1..Len(steps) :
                 /\ steps[i].step = TokenToNativeOrder[i]
                 /\ i < Len(steps) => steps[i].res = "Ok"
           /\ pc # 0 => Len(steps) = pc - 1
           /\ CurStep = "delegate"
                 => work.escrow.allocated /\ work.escrow.owner = "program_authority"
           /\ CurStep = "assert"
                 => ~work.escrow.allocated /\ work.escrow.lamports = Big(0)

\* C9 witness: the six steps have run and the instruction returned Ok
C9_Witness ==
    /\ pc = 0
    /\ req.op = "swap_tokens_for_sol"
    /\ result = "Ok"
    /\ Len(steps) = 6
    /\ req.amount_out_min = Big(50)

\* C10: two create_program_wsol_idempotent in a row, from a wSOL account
\* that is absent or open with the program authority as owner, leave the
\* account and the authority's lamports as one call does, and the second
\* returns Ok.
C10_EnsureOpenIdempotent ==
    \A i \in 1..(Len(hist) - 1) :
        (/\ hist[i].op = "create_program_wsol_idempotent"
         /\ hist[i + 1].op = "create_program_wsol_idempotent")
            => /\ hist[i + 1].escrow = hist[i].escrow
               /\ hist[i + 1].lam = hist[i].lam
               /\ hist[i + 1].res = "Ok"

(***************************************************************************)
(* SpecOwner: the two wSOL instructions given an allocated token account   *)
(* whose owner field is another key                                        *)
(***************************************************************************)

\* an allocated wSOL token account whose owner is not the program authority
Foreign(by) == [Open(by) EXCEPT !.owner = "other"]

InitOwner == InitWith({InitLedger(Foreign(by)) : by \in {Big(0), Big(50)}})

SpecOwner == InitOwner /\ [][NextSeq]_vars

\* C11: create_program_wsol_idempotent on an allocated account whose token
\* owner is not the program authority returns IncorrectOwner and leaves the
\* account as it was: nothing is created or initialized.
C11_IncorrectOwner ==
    [][(/\ CurStep = "create"
        /\ work.escrow.allocated
        /\ work.escrow.owner # "program_authority"
        /\ StepRan)
          => /\ LastRes = "IncorrectOwner"
             /\ result' = "IncorrectOwner"
             /\ work' = work
             /\ ledger' = ledger]_vars

\* C11 witness: the instruction has returned IncorrectOwner on such an account
C11_Witness ==
    /\ pc = 0
    /\ req.op = "create_program_wsol_idempotent"
    /\ result = "IncorrectOwner"
    /\ ledger.escrow = Foreign(Big(50))

\* C12: create_program_wsol_idempotent on an account without data, with a
\* program authority holding at least the rent-exempt minimum, returns Ok and
\* leaves the account allocated, holding exactly that minimum, initialized as
\* a wSOL token account of the program authority, whatever lamports the
\* address held before.
C12_CreateOnEmpty ==
    [][(/\ CurStep = "create"
        /\ ~work.escrow.allocated
        /\ BigLeq(rent_lamports, work.lam["program_authority"])
        /\ StepRan)
          => (LastRes = "Ok" /\ work'.escrow = Open(Big(0)))]_vars

CreateOp == "create_program_wsol_idempotent"

CloseOp == "close_program_wsol"

\* C13: from an absent wSOL account (no data, no lamports), create then close
\* with nothing deposited in between both return Ok, leave the receiver's
\* lamports as they were and the account absent again.
C13_OpenCloseRoundTrip ==
    \A i \in 1..(Len(hist) - 1) :
        (/\ hist[i].op = CreateOp
         /\ hist[i].was.escrow = Absent
         /\ hist[i + 1].op = CloseOp)
            => /\ hist[i].res = "Ok"
               /\ hist[i + 1].res = "Ok"
               /\ hist[i + 1].lam[hist[i + 1].receiver]
                     = hist[i].was.lam[hist[i + 1].receiver]
               /\ hist[i + 1].escrow = Absent

\* C13 witness: the round trip has run, closing into the receiver
C13_Witness ==
    /\ Len(hist) >= 2
    /\ hist[1].op = CreateOp /\ hist[1].was.escrow = Absent /\ hist[1].res = "Ok"
    /\ hist[1].escrow = Open(Big(0))
    /\ hist[2].op = CloseOp /\ hist[2].receiver = "receiver" /\ hist[2].res = "Ok"

\* C14: close_program_wsol on an account holding fewer lamports than the
\* rent-exempt minimum (an absent one included) returns Underflow, never
\* computes out_amount by wrapping, closes nothing and transfers nothing.
C14_CloseUnderflow ==
    [][(CurStep = "close" /\ BigLess(work.escrow.lamports, rent_lamports) /\ StepRan)
          => (LastRes = "Underflow" /\ work' = work /\ ledger' = ledger)]_vars

\* C17: two transactions that both call create_program_wsol_idempotent on the
\* same absent account, run one after the other by the runtime, create and
\* initialize it once, charge the authority the minimum once, both return Ok,
\* and leave what a single call leaves.
C17_SerializedEnsureOpen ==
    \A i \in 1..(Len(hist) - 1) :
        (/\ hist[i].op = CreateOp
         /\ ~hist[i].was.escrow.allocated
         /\ hist[i + 1].op = CreateOp)
            => /\ hist[i].res = "Ok" /\ hist[i + 1].res = "Ok"
               /\ hist[i + 1].escrow = Open(Big(0))
               /\ BigAdd(hist[i + 1].lam["program_authority"], rent_lamports)
                     = hist[i].was.lam["program_authority"]
               /\ hist[i + 1].escrow = hist[i].escrow
               /\ hist[i + 1].lam = hist[i].lam

\* the positions in the transfers issued of those made to `to`
Issued(xf, to) == {i \in 1..Len(xf) : xf[i].to = to}

FeeStepRan == CurStep = "fee" /\ req.fee_percent > 0 /\ StepRan

\* C15: in take_integrator_fee with fee_percent > 0 a transfer to the
\* protocol's account is issued if and only if protocol_fee > 0, the transfer
\* to the integrator is always issued (also of 0), the protocol's comes first
\* when both are issued, and after a failed transfer to the protocol none to
\* the integrator is attempted.  (Stated for the calls whose arithmetic does
\* not abort.)
C15_TransferOrder ==
    [][(FeeStepRan /\ LastRes # "Panic")
          => LET protocol_fee == ExactPart(ExactPart(req.amount_in, req.fee_percent),
                                           req.share_percent)
                 failed == \E i \in Issued(xfers', "unizen") : xfers'[i].res # "Ok"
             IN  /\ (Issued(xfers', "unizen") # {}) <=> (protocol_fee # Big(0))
                 /\ ~failed => Issued(xfers', "integrator") # {}
                 /\ failed => Issued(xfers', "integrator") = {}
                 /\ \A i \in Issued(xfers', "unizen"), j \in Issued(xfers', "integrator") :
                       i < j]_vars

\* C15 as amended: a transfer to the protocol's account is issued only when
\* share_percent > 0; when the call returns Ok it was issued if and only if
\* share_percent > 0 (also of 0) and the transfer to the integrator was issued
\* (also of 0); the protocol's comes first when both are issued, and after a
\* failed transfer to the protocol none to the integrator is attempted.
C15_TransferOrderByShare ==
    [][FeeStepRan
          => LET failed == \E i \in Issued(xfers', "unizen") : xfers'[i].res # "Ok"
             IN  /\ Issued(xfers', "unizen") # {} => req.share_percent > 0
                 /\ LastRes = "Ok"
                       => /\ (Issued(xfers', "unizen") # {}) <=> (req.share_percent > 0)
                          /\ Issued(xfers', "integrator") # {}
                 /\ failed => Issued(xfers', "integrator") = {}
                 /\ Issued(xfers', "unizen") \subseteq {1}
                 /\ Issued(xfers', "integrator") \subseteq {Len(xfers')}
                 /\ Len(xfers') <= 2]_vars

\* C15 witness: share_percent > 0 with a protocol_fee of 0, both transfers issued
C15_Witness ==
    /\ pc = 0
    /\ req.op = "take_integrator_fee"
    /\ result = "Ok"
    /\ req.amount_in = Big(1) /\ req.fee_percent = 1 /\ req.share_percent = 1
    /\ Len(xfers) = 2
    /\ xfers[1] = Xfer("unizen", Big(0), "Ok")
    /\ xfers[2] = Xfer("integrator", Big(0), "Ok")

\* C16: the delegated call of each of the three swaps is made with the
\* program authority among the signers the engine can use.
C16_AuthoritySigns ==
    (req.op \in SwapOps /\ CurStep = "delegate") => "program_authority" \in JupiterSigners

CloseStepOk == CurStep = "close" /\ StepRan /\ LastRes = "Ok"

\* every successful swap_tokens_for_sol ends with the wSOL account absent
FlowEndsClosed ==
    (req.op = "swap_tokens_for_sol" /\ pc' = 0 /\ result' = "Ok") => ledger'.escrow = Absent

\* C18: a successful close of an open wSOL account holding B >= rent_lamports
\* lamports raises the receiver's lamports by exactly B - rent_lamports,
\* leaves the account absent with 0 lamports and the program authority's
\* lamports exactly rent_lamports higher; so every successful
\* swap_tokens_for_sol ends with the account absent.
C18_CloseAmounts ==
    [][/\ CloseStepOk
          => LET B == work.escrow.lamports
             IN  /\ BigLeq(rent_lamports, B)
                 /\ BigAdd(work'.lam[req.receiver], rent_lamports)
                       = BigAdd(work.lam[req.receiver], B)
                 /\ work'.lam["program_authority"]
                       = BigAdd(work.lam["program_authority"], rent_lamports)
                 /\ work'.escrow = Absent
       /\ FlowEndsClosed]_vars

\* C18 as amended: the receiver gains B - rent_lamports and the authority
\* rent_lamports when the receiver is not the program authority; a receiver
\* that is the program authority gains B; the account is left absent with 0
\* lamports either way, and every successful swap_tokens_for_sol ends with it
\* absent.
C18_CloseAmountsByReceiver ==
    [][/\ CloseStepOk
          => LET B == work.escrow.lamports
             IN  /\ BigLeq(rent_lamports, B)
                 /\ work'.escrow = Absent
                 /\ IF req.receiver = "program_authority"
                    THEN work'.lam["program_authority"]
                            = BigAdd(work.lam["program_authority"], B)
                    ELSE /\ BigAdd(work'.lam[req.receiver], rent_lamports)
                               = BigAdd(work.lam[req.receiver], B)
                         /\ work'.lam["program_authority"]
                               = BigAdd(work.lam["program_authority"], rent_lamports)
                 /\ \A a \in SysAccts \ {req.receiver, "program_authority"} :
                       work'.lam[a] = work.lam[a]
       /\ FlowEndsClosed]_vars

\* C18 witness: an account holding 50 lamports over the minimum was closed
\* into the program authority
C18_Witness ==
    /\ pc = 0
    /\ req.op = CloseOp
    /\ req.receiver = "program_authority"
    /\ result = "Ok"
    /\ hist[1].was.escrow = Open(Big(50))
    /\ ledger.escrow = Absent

\* C19: for every u64 amount_in and fee_percent, share_percent in
\* [0, FEE_DENOM], take_integrator_fee computes total_fee = floor(amount_in *
\* fee_percent / FEE_DENOM) and protocol_fee = floor(total_fee * share_percent
\* / FEE_DENOM) exactly: no product leaves u64 so as to change them or abort.
C19_ExactFees ==
    [][(FeeStepRan /\ InRange(req.fee_percent) /\ InRange(req.share_percent))
          => LET total_fee == ExactPart(req.amount_in, req.fee_percent)
                 protocol_fee == ExactPart(total_fee, req.share_percent)
             IN  /\ LastRes # "Panic"
                 /\ \A i \in Issued(xfers', "unizen") : xfers'[i].amount = protocol_fee
                 /\ \A i \in Issued(xfers', "integrator") :
                       BigAdd(xfers'[i].amount, protocol_fee) = total_fee]_vars

\* C20: fee_percent and share_percent are not range-checked: with values over
\* FEE_DENOM whose products fit in u64 the call is not rejected for them and
\* computes the fees by the same formulas, with no overflow or underflow in
\* total_fee, protocol_fee or integrator_fee = total_fee - protocol_fee.
C20_OverRange ==
    [][(/\ FeeStepRan
        /\ req.fee_percent > FEE_DENOM \/ req.share_percent > FEE_DENOM
        /\ FitsU64(BigMul(req.amount_in, req.fee_percent))
        /\ FitsU64(BigMul(ExactPart(req.amount_in, req.fee_percent), req.share_percent)))
          => LET total_fee == ExactPart(req.amount_in, req.fee_percent)
                 protocol_fee == ExactPart(total_fee, req.share_percent)
             IN  /\ LastRes # "Panic"
                 /\ BigLeq(protocol_fee, total_fee)
                 /\ \A i \in Issued(xfers', "unizen") : xfers'[i].amount = protocol_fee
                 /\ \A i \in Issued(xfers', "integrator") :
                       BigAdd(xfers'[i].amount, protocol_fee) = total_fee]_vars

\* the fee step of swap_sol_for_tokens has just run
WrappedFeeStepRan == CurStep = "fee" /\ StepRan /\ req.op = "swap_sol_for_tokens"

\* C21: in swap_sol_for_tokens the wrap of amount_in into the user's wSOL
\* account has succeeded before take_integrator_fee runs, so with fee_percent
\* and share_percent in [0, FEE_DENOM] and amount_in * fee_percent within u64
\* no fee transfer fails for insufficient funds, whatever the account held
\* before the instruction.
C21_WrapFundsFee ==
    [][(/\ WrappedFeeStepRan
        /\ InRange(req.fee_percent) /\ InRange(req.share_percent)
        /\ FitsU64(BigMul(req.amount_in, req.fee_percent)))
          => /\ steps = <<[step |-> "wrap", res |-> "Ok"]>>
             /\ BigLeq(BigAdd(ledger.tok["user_wsol_ata"], req.amount_in),
                       work.tok["user_wsol_ata"])
             /\ LastRes # "InsufficientFunds"
             /\ \A i \in 1..Len(xfers') : xfers'[i].res # "InsufficientFunds"]_vars

\* both fee transfers of a swap_sol_for_tokens succeeded out of a wSOL account
\* that held 0 before the instruction
C21_Witness ==
    /\ req.op = "swap_sol_for_tokens"
    /\ ledger.tok["user_wsol_ata"] = Big(0)
    /\ Len(steps) = 2 /\ steps[2] = [step |-> "fee", res |-> "Ok"]
    /\ Len(xfers) = 2
    /\ \A i \in 1..2 : xfers[i].res = "Ok" /\ BigLess(Big(0), xfers[i].amount)

\* C22: in swap_tokens_for_sol the receiver's increase checked against
\* amount_out_min is the whole balance of the program's wSOL account above
\* rent_lamports at the close, and that account holds exactly rent_lamports
\* when prev_sol_bal is taken, after any committed sequence of
\* create_program_wsol_idempotent, close_program_wsol and swaps: the increase
\* holds only what the delegated call of the same instruction deposited.
C22_EscrowAtReserve ==
    [][/\ (CurStep = "snapshot" /\ StepRan /\ req.op = "swap_tokens_for_sol")
            => /\ work.escrow.allocated
               /\ work.escrow.lamports = rent_lamports
       /\ (CloseStepOk /\ req.op = "swap_tokens_for_sol")
            => /\ BigAdd(work'.lam[req.receiver], rent_lamports)
                    = BigAdd(prev_bal, work.escrow.lamports)
               /\ \E by \in EngineCredits :
                     work.escrow.lamports = BigAdd(rent_lamports, by)]_vars

====
